---- MODULE Spec2Model ----
(***************************************************************************)
(* Model of the "AI Translator & Critic" repository:                       *)
(*   - the text-similarity metrics of tests/unit/test_metrics.py           *)
(*     (simple_bleu, rouge_l_f1, semantic_similarity), specification Spec, *)
(*     and their calls from concurrent threads, specification SpecThreads; *)
(*   - the Flask application of src/app.py (call_llm, index_post),         *)
(*     specification SpecApp.                                              *)
(*                                                                         *)
(* A Python str is a sequence of one-character strings.  A Python float    *)
(* produced by the metrics is the exact real number coef * e^expo, with    *)
(* coef and expo rationals in lowest terms (IEEE rounding is not           *)
(* modelled; the only transcendental operation of the code is math.exp).   *)
(***************************************************************************)
EXTENDS Integers, Sequences, FiniteSets, TLC

(***************************************************************************)
(* Bounds of the model.                                                    *)
(***************************************************************************)
\* longest string enumerated character by character
MaxLen == 2
\* most tokens in a string built from Vocab
MaxTokens == 3

(***************************************************************************)
(* Characters and strings.                                                 *)
(***************************************************************************)
\* the characters str.split() treats as separators
Whitespace == {" ", "\t", "\n"}

\* str.lower() on the letters the inputs use
UpperToLower ==
    ("A" :> "a") @@ ("B" :> "b") @@ ("S" :> "s") @@ ("T" :> "t")

LowerChar(c) == IF c \in DOMAIN UpperToLower THEN UpperToLower[c] ELSE c

\* str.lower()
Lower(s) == [i \in 1..Len(s) |-> LowerChar(s[i])]

\* the positions where a token of s starts, and where the token starting at i ends
TokenStarts(s) ==
    {i \in 1..Len(s) : s[i] \notin Whitespace /\ (i = 1 \/ s[i - 1] \in Whitespace)}

TokenEnd(s, i) ==
    CHOOSE j \in i..Len(s) :
        /\ \A k \in i..j : s[k] \notin Whitespace
        /\ j = Len(s) \/ s[j + 1] \in Whitespace

\* str.split(): the maximal runs of non-whitespace characters, in order
Split(s) ==
    LET starts == TokenStarts(s)
        StartOf(k) == CHOOSE i \in starts : Cardinality({x \in starts : x < i}) = k - 1
    IN  [k \in 1..Cardinality(starts) |-> SubSeq(s, StartOf(k), TokenEnd(s, StartOf(k)))]

\* set(tokens)
ToSet(seq) == {seq[i] : i \in 1..Len(seq)}

(***************************************************************************)
(* Numbers: rationals in lowest terms, and floats coef * e^expo.           *)
(***************************************************************************)
RECURSIVE GCD(_, _)
GCD(a, b) == IF b = 0 THEN a ELSE GCD(b, a % b)

Abs(x) == IF x < 0 THEN -x ELSE x

\* n/d in lowest terms, d > 0
Rat(n, d) ==
    LET g == GCD(Abs(n), d)
    IN  [n |-> n \div g, d |-> d \div g]

RatAdd(x, y) == Rat(x.n * y.d + y.n * x.d, x.d * y.d)
RatSub(x, y) == Rat(x.n * y.d - y.n * x.d, x.d * y.d)
RatMul(x, y) == Rat(x.n * y.n, x.d * y.d)
\* x / y for y > 0
RatDiv(x, y) == Rat(x.n * y.d, x.d * y.n)
RatLt(x, y) == x.n * y.d < y.n * x.d
RatLe(x, y) == x.n * y.d <= y.n * x.d

\* the float r (a rational)
FloatOf(r) == [coef |-> r, expo |-> Rat(0, 1)]
Float0 == FloatOf(Rat(0, 1))
Float1 == FloatOf(Rat(1, 1))

\* math.exp(r)
FloatExp(r) == [coef |-> Rat(1, 1), expo |-> r]

\* x * y; 0.0 times anything finite is 0.0
FloatMul(x, y) ==
    IF x.coef.n = 0 \/ y.coef.n = 0
    THEN Float0
    ELSE [coef |-> RatMul(x.coef, y.coef), expo |-> RatAdd(x.expo, y.expo)]

\* x < y for floats with coef >= 0, decided by monotonicity of exp; TRUE only
\* when the order is certain (coefficient and exponent ordered the same way)
FloatLt(x, y) ==
    IF x.expo = y.expo THEN RatLt(x.coef, y.coef)
    ELSE IF x.coef.n = 0 THEN y.coef.n > 0
    ELSE IF y.coef.n = 0 THEN FALSE
    ELSE /\ RatLe(x.coef, y.coef)
         /\ RatLt(x.expo, y.expo)

FloatLe(x, y) == x = y \/ FloatLt(x, y)

(***************************************************************************)
(* What a call produces: a returned value or a raised exception.           *)
(***************************************************************************)
Return(v) == [kind |-> "return", value |-> v]
Raise(e) == [kind |-> "raise", exc |-> e]

(***************************************************************************)
(* The inputs: every string of at most MaxLen characters over Alphabet,    *)
(* every string of at most MaxTokens single-spaced tokens of Vocab, some   *)
(* strings with other separators, and the sentences the unit tests use.    *)
(***************************************************************************)
Alphabet == {"a", "A", " "}

Vocab == {<<"a">>, <<"b">>}

CharStrings == UNION {[1..k -> Alphabet] : k \in 0..MaxLen}

\* " ".join(tokens)
RECURSIVE Join(_)
Join(tokens) ==
    IF tokens = <<>> THEN <<>>
    ELSE IF Len(tokens) = 1 THEN tokens[1]
    ELSE tokens[1] \o <<" ">> \o Join(Tail(tokens))

TokenStrings == {Join(ts) : ts \in UNION {[1..k -> Vocab] : k \in 1..MaxTokens}}

CatRef == <<"T","h","e"," ","c","a","t"," ","s","a","t"," ","o","n"," ","t","h","e"," ","m","a","t">>
CatSimilar == <<"A"," ","c","a","t"," ","w","a","s"," ","s","i","t","t","i","n","g"," ","o","n"," ","t","h","e"," ","m","a","t">>
CatDifferent == <<"A","n"," ","a","i","r","p","l","a","n","e"," ","f","l","e","w"," ","a","c","r","o","s","s"," ","t","h","e"," ","s","k","y">>
FoxRef == <<"T","h","e"," ","q","u","i","c","k"," ","b","r","o","w","n"," ","f","o","x"," ","j","u","m","p","s"," ","o","v","e","r"," ","t","h","e"," ","l","a","z","y"," ","d","o","g">>
FoxPrefix == <<"T","h","e"," ","q","u","i","c","k"," ","b","r","o","w","n"," ","f","o","x"," ","j","u","m","p","s">>
ShortRef == <<"S","h","o","r","t"," ","s","e","n","t","e","n","c","e"," ","f","o","r"," ","t","e","s","t","i","n","g">>
ShortHyp == <<"S","h","o","r","t"," ","s","e","n","t","e","n","c","e">>

TestSentences == {FoxRef, FoxPrefix, ShortRef, ShortHyp}

\* whitespace before, behind and in runs between the tokens
EdgeStrings ==
    {<<" ", "a", " ">>, <<"a", " ", " ", "A">>, <<"A", "\t", "a", "\n">>, <<"\t", "\n", " ">>}

Inputs == CharStrings \cup TokenStrings \cup EdgeStrings \cup TestSentences

(***************************************************************************)
(* simple_bleu: unigram precision with brevity penalty.                    *)
(***************************************************************************)
\* a plausible slip: each distinct hypothesis token counted once
Matches_Distinct(ref_tokens, hyp_tokens) ==
    Cardinality(ToSet(hyp_tokens) \cap ToSet(ref_tokens))

\* a plausible slip: clipped counts, as in standard BLEU: a hypothesis token is
\* counted at most as often as it occurs in the reference
Matches_Clipped(ref_tokens, hyp_tokens) ==
    Cardinality({i \in 1..Len(hyp_tokens) :
        Cardinality({k \in 1..i : hyp_tokens[k] = hyp_tokens[i]})
            <= Cardinality({k \in 1..Len(ref_tokens) : ref_tokens[k] = hyp_tokens[i]})})

\* sum(1 for t in hyp_tokens if t in ref_tokens)
Matches(ref_tokens, hyp_tokens) ==
    Cardinality({i \in 1..Len(hyp_tokens) : hyp_tokens[i] \in ToSet(ref_tokens)})

\* a plausible slip: the sign of the exponent
BrevityPenalty_SignFlipped(ref_len, hyp_len) ==
    IF hyp_len < ref_len
    THEN FloatExp(RatSub(Rat(ref_len, hyp_len), Rat(1, 1)))
    ELSE Float1

\* a plausible slip: the comparison turned around
BrevityPenalty_WrongSide(ref_len, hyp_len) ==
    IF hyp_len > ref_len
    THEN FloatExp(RatSub(Rat(1, 1), Rat(ref_len, hyp_len)))
    ELSE Float1

\* bp = 1.0; if hyp_len < ref_len: bp = math.exp(1 - (ref_len / hyp_len))
BrevityPenalty(ref_len, hyp_len) ==
    IF hyp_len < ref_len
    THEN FloatExp(RatSub(Rat(1, 1), Rat(ref_len, hyp_len)))
    ELSE Float1

\* lines 27-36, reached with at least one hypothesis token
PenalizedPrecision(ref_tokens, hyp_tokens) ==
    LET matches == Matches(ref_tokens, hyp_tokens)
        precision == FloatOf(Rat(matches, Len(hyp_tokens)))
        bp == BrevityPenalty(Len(ref_tokens), Len(hyp_tokens))
    IN  FloatMul(precision, bp)

\* a plausible slip: the tokens are compared as written, without .lower()
simple_bleu_CaseSensitive(ref, hyp) ==
    LET ref_tokens == Split(ref)
        hyp_tokens == Split(hyp)
    IN  IF hyp_tokens = <<>>
        THEN Return(Float0)
        ELSE Return(PenalizedPrecision(ref_tokens, hyp_tokens))

\* a plausible slip: the guard tests the string, not its tokens
simple_bleu_GuardOnString(ref, hyp) ==
    LET ref_tokens == Split(Lower(ref))
        hyp_tokens == Split(Lower(hyp))
    IN  IF hyp = <<>>
        THEN Return(Float0)
        ELSE IF Len(hyp_tokens) = 0
             THEN Raise("ZeroDivisionError")
             ELSE Return(PenalizedPrecision(ref_tokens, hyp_tokens))

\* matches / len(hyp_tokens) raises ZeroDivisionError on a zero divisor
simple_bleu(ref, hyp) ==
    LET ref_tokens == Split(Lower(ref))
        hyp_tokens == Split(Lower(hyp))
    IN  IF hyp_tokens = <<>>
        THEN Return(Float0)
        ELSE IF Len(hyp_tokens) = 0
             THEN Raise("ZeroDivisionError")
             ELSE Return(PenalizedPrecision(ref_tokens, hyp_tokens))

(***************************************************************************)
(* rouge_l_f1: LCS by dynamic programming, then F1.                        *)
(* dp is indexed from 0 as in the source; token i of the source is a[i+1]. *)
(***************************************************************************)
\* dp = [[0] * (m + 1) for _ in range(n + 1)]
ZeroTable(n, m) == [i \in 0..n |-> [j \in 0..m |-> 0]]

Max(x, y) == IF x >= y THEN x ELSE y

\* a plausible slip: a match extends the better neighbour, not the diagonal
DPCell_MatchOnNeighbour(row, below, ai, b, j) ==
    IF ai = b[j + 1]
    THEN 1 + Max(below[j], row[j + 1])
    ELSE Max(below[j], row[j + 1])

\* the body of the two loops at (i, j): row is dp[i], below is dp[i + 1],
\* ai is a[i]
DPCell(row, below, ai, b, j) ==
    IF ai = b[j + 1]
    THEN 1 + below[j + 1]
    ELSE Max(below[j], row[j + 1])

\* for j in range(m - 1, -1, -1): dp[i][j] = ...
RECURSIVE FillRow(_, _, _, _, _)
FillRow(row, below, ai, b, j) ==
    IF j < 0 THEN row
    ELSE FillRow([row EXCEPT ![j] = DPCell(row, below, ai, b, j)], below, ai, b, j - 1)

\* for i in range(n - 1, -1, -1): the inner loop on row i
RECURSIVE FillDP(_, _, _, _)
FillDP(dp, a, b, i) ==
    IF i < 0 THEN dp
    ELSE FillDP([dp EXCEPT ![i] = FillRow(dp[i], dp[i + 1], a[i + 1], b, Len(b) - 1)],
                a, b, i - 1)

LcsTable(a, b) == FillDP(ZeroTable(Len(a), Len(b)), a, b, Len(a) - 1)

\* a plausible slip: the arithmetic mean of precision and recall
F1OfLcs_ArithmeticMean(lcs, n, m) ==
    IF lcs = 0 THEN Float0
    ELSE LET prec == IF m > 0 THEN Rat(lcs, m) ELSE Rat(0, 1)
             rec  == IF n > 0 THEN Rat(lcs, n) ELSE Rat(0, 1)
         IN  FloatOf(RatDiv(RatAdd(prec, rec), Rat(2, 1)))

\* the arithmetic after the table: lines 54-62
F1OfLcs(lcs, n, m) ==
    IF lcs = 0 THEN Float0
    ELSE LET prec == IF m > 0 THEN Rat(lcs, m) ELSE Rat(0, 1)
             rec  == IF n > 0 THEN Rat(lcs, n) ELSE Rat(0, 1)
         IN  IF RatAdd(prec, rec) = Rat(0, 1)
             THEN Float0
             ELSE FloatOf(RatDiv(RatMul(Rat(2, 1), RatMul(prec, rec)), RatAdd(prec, rec)))

rouge_l_f1(ref, hyp) ==
    LET a == Split(ref)
        b == Split(hyp)
        dp == LcsTable(a, b)
    IN  Return(F1OfLcs(dp[0][0], Len(a), Len(b)))

(***************************************************************************)
(* semantic_similarity: TF-IDF cosine when scikit-learn was importable,    *)
(* token Jaccard otherwise.                                                *)
(***************************************************************************)
\* TfidfVectorizer's default analyzer: lowercase, then the tokens of two or
\* more word characters (token_pattern (?u)\b\w\w+\b); the inputs hold only
\* letters and whitespace
VectorTerms(s) == SelectSeq(Split(Lower(s)), LAMBDA t : Len(t) >= 2)

\* how often term t occurs
TermCount(terms, t) == Cardinality({i \in 1..Len(terms) : terms[i] = t})

\* TfidfVectorizer().fit_transform([reference, hypothesis]) followed by
\* cosine_similarity: fit_transform raises ValueError ("empty vocabulary")
\* when the two documents yield no term; otherwise the cosine is a function
\* of the two term-count vectors, kept symbolically
VectorStrategy(ref, hyp) ==
    LET ta == VectorTerms(ref)
        tb == VectorTerms(hyp)
        vocabulary == ToSet(ta) \cup ToSet(tb)
    IN  IF vocabulary = {}
        THEN Raise("ValueError")
        ELSE [kind |-> "return",
              cosine |-> [doc0 |-> [t \in vocabulary |-> TermCount(ta, t)],
                          doc1 |-> [t \in vocabulary |-> TermCount(tb, t)]]]

\* a plausible slip: the tokens are not lowercased
JaccardFallback_NoLower(ref, hyp) ==
    LET a == ToSet(Split(ref))
        b == ToSet(Split(hyp))
    IN  IF a = {} /\ b = {} THEN Float1
        ELSE IF a = {} \/ b = {} THEN Float0
        ELSE FloatOf(Rat(Cardinality(a \cap b), Cardinality(a \cup b)))

\* a plausible slip: floor division (//) in place of true division
JaccardFallback_FloorDiv(ref, hyp) ==
    LET a == ToSet(Split(Lower(ref)))
        b == ToSet(Split(Lower(hyp)))
    IN  IF a = {} /\ b = {} THEN Float1
        ELSE IF a = {} \/ b = {} THEN Float0
        ELSE FloatOf(Rat(Cardinality(a \cap b) \div Cardinality(a \cup b), 1))

\* lines 76-84
JaccardFallback(ref, hyp) ==
    LET a == ToSet(Split(Lower(ref)))
        b == ToSet(Split(Lower(hyp)))
    IN  IF a = {} /\ b = {} THEN Float1
        ELSE IF a = {} \/ b = {} THEN Float0
        ELSE LET inter == a \cap b
                 union == a \cup b
             IN  FloatOf(Rat(Cardinality(inter), Cardinality(union)))

\* a plausible slip: the vector branch wrapped in try/except, falling back to
\* the token sets when it raises
semantic_similarity_FallbackOnError(sklearn, ref, hyp) ==
    IF sklearn /\ VectorStrategy(ref, hyp).kind = "return"
    THEN VectorStrategy(ref, hyp)
    ELSE Return(JaccardFallback(ref, hyp))

semantic_similarity(sklearn, ref, hyp) ==
    IF sklearn
    THEN VectorStrategy(ref, hyp)
    ELSE Return(JaccardFallback(ref, hyp))

(***************************************************************************)
(* The Flask application, src/app.py.                                      *)
(*                                                                         *)
(* One request is followed from its arrival to its response; handlers of   *)
(* different requests share only API_KEY, which no handler writes.  The    *)
(* remote API is the environment: each requests.post ends in one of        *)
(* HttpOutcomes.  Texts produced by the LLM and the error messages are     *)
(* named, not spelled out.                                                 *)
(***************************************************************************)
\* Python values: None, and the str s
PyNone == [type |-> "NoneType"]
PyStr(s) == [type |-> "str", s |-> s]

\* bool(v) for None and str
Truthy(v) == v.type = "str" /\ v.s # ""

\* what MENTORPIECE_API_KEY may hold in the environment: absent, empty, a key
KeyValues == {PyNone, PyStr(""), PyStr("test-key-12345")}

API_ENDPOINT == "https://api.mentorpiece.org/v1/process-ai-request"

TRANSLATION_MODEL == "Qwen/Qwen3-VL-30B-A3B-Instruct"
JUDGE_MODEL == "claude-sonnet-4-5-20250929"

\* a plausible slip: the text is used as typed, without .strip()
Strip_Omitted(s) == s

\* str.strip()
Strip(s) ==
    LET keep == {i \in 1..Len(s) : s[i] \notin Whitespace}
    IN  IF keep = {} THEN <<>>
        ELSE SubSeq(s, CHOOSE i \in keep : \A k \in keep : i <= k,
                       CHOOSE j \in keep : \A k \in keep : k <= j)

\* the forms a POST may carry: each field present or not
TextValues == {<<>>, <<" ">>, <<"h", "i">>, <<" ", "h", "i", "\n">>}
LanguageValues == {<<"F", "r", "e", "n", "c", "h">>, <<" ">>}
Forms ==
    UNION {{f \in [fields -> TextValues \cup LanguageValues] :
                /\ "original_text" \in fields => f["original_text"] \in TextValues
                /\ "target_language" \in fields => f["target_language"] \in LanguageValues} :
           fields \in SUBSET {"original_text", "target_language"}}

\* request.form.get(key, default)
FormGet(f, key, default) == IF key \in DOMAIN f THEN f[key] ELSE default

English == <<"E", "n", "g", "l", "i", "s", "h">>

\* the JSON types a "response" field may have
JsonTypes == {"str", "int", "NoneType", "list"}

\* the bodies of an HTTP response: not JSON at all, JSON that is no object,
\* an object without "response", an object whose "response" has type rtype
Bodies ==
    {[shape |-> sh, rtype |-> "none"] : sh \in {"invalid", "non_object", "no_field"}}
    \cup {[shape |-> "with_field", rtype |-> t] : t \in JsonTypes}

StatusCodes == {200, 302, 401, 500}

NoBody == [shape |-> "none", rtype |-> "none"]

\* how requests.post(...) followed by response.json() may end: an exception
\* of requests.post, or a response
HttpOutcomes ==
    {[kind |-> k, status |-> 0, body |-> NoBody] :
        k \in {"Timeout", "ConnectionError", "RequestException", "Exception"}}
    \cup {[kind |-> "response", status |-> st, body |-> b] : st \in StatusCodes, b \in Bodies}

\* what call_llm returns: a value of Python type type; msg names the text
\* (the LLM's answer or one of the error messages), code the status in it
Returned(type, msg, code) == [type |-> type, msg |-> msg, code |-> code]

ERR_NO_KEY == Returned("str", "error: API key not loaded", 0)
ERR_TIMEOUT == Returned("str", "error: timeout", 0)
ERR_CONNECTION == Returned("str", "error: connection", 0)
ERR_REQUEST == Returned("str", "error: request", 0)
ERR_JSON == Returned("str", "error: invalid JSON", 0)
ERR_UNEXPECTED == Returned("str", "error: unexpected", 0)
ERR_NO_FIELD == Returned("str", "error: no response field", 0)
ERR_API(code) == Returned("str", "error: API status", code)
ERR_EMPTY_TEXT == Returned("str", "error: enter a text", 0)

\* a plausible slip: the check is `API_KEY is None`, which an empty key passes
KeyLoaded_IsNotNone(key) == key # PyNone

\* lines 60-63: the key check that precedes the request
KeyLoaded(key) == Truthy(key)

\* lines 67-86: the request call_llm sends
PostRequest(key, model_name, messages) ==
    [url |-> API_ENDPOINT,
     headers |-> [Authorization |-> <<"Bearer ", key.s>>, ContentType |-> "application/json"],
     json |-> [model_name |-> model_name, prompt |-> messages],
     timeout |-> 30]

\* lines 88-133: what call_llm returns once requests.post ended in outcome o.
\* response.json() raises on a body that is not JSON: a ValueError, which
\* requests >= 2.27 raises as its own JSONDecodeError, a RequestException
\* too, so either handler may be the one that catches it (json_is_request_exc);
\* .get on JSON that is no object raises AttributeError
AfterPost(o, json_is_request_exc) ==
    CASE o.kind = "Timeout" -> ERR_TIMEOUT
      [] o.kind = "ConnectionError" -> ERR_CONNECTION
      [] o.kind = "RequestException" -> ERR_REQUEST
      [] o.kind = "Exception" -> ERR_UNEXPECTED
      [] OTHER ->
            IF o.status >= 400 THEN ERR_API(o.status)
            ELSE CASE o.body.shape = "invalid" ->
                          IF json_is_request_exc THEN ERR_REQUEST ELSE ERR_JSON
                   [] o.body.shape = "non_object" -> ERR_UNEXPECTED
                   [] o.body.shape = "no_field" -> ERR_NO_FIELD
                   [] OTHER -> Returned(o.body.rtype, "response", 0)

\* a plausible slip: the two models exchanged
ModelOfCall_Swapped(k) == IF k = 1 THEN JUDGE_MODEL ELSE TRANSLATION_MODEL

\* the model index_post uses for its first and for its second call
ModelOfCall(k) == IF k = 1 THEN TRANSLATION_MODEL ELSE JUDGE_MODEL

\* lines 205-209 and 224-240: the prompts, by what they embed
TranslationPrompt(text, language) ==
    [task |-> "translate", original_text |-> text, target_language |-> language]

\* a plausible slip: the judged text is left out of the prompt
QualityPrompt_WithoutTranslation(text, language, translation) ==
    [task |-> "judge", original_text |-> text, target_language |-> language,
     translation |-> PyNone]

QualityPrompt(text, language, translation) ==
    [task |-> "judge", original_text |-> text, target_language |-> language,
     translation |-> translation]

\* render_template("index.html", ...): status 200 and the three values
RenderTemplate(original, translated, verdict) ==
    [status |-> 200, original_text |-> original, translated_text |-> translated,
     quality_verdict |-> verdict]

(***************************************************************************)
(* State.  The metrics module: one pair of inputs, the import-time flag,   *)
(* and the last call made on the pair with what it produced.  The          *)
(* application: the environment, the key read at import, and one request.  *)
(***************************************************************************)
VARIABLES
    reference,          \* the reference string of the calls
    hypothesis,         \* the hypothesis string of the calls
    SKLEARN_AVAILABLE,  \* set once by the import try/except
    fn,                 \* the function called last, "none" before any call
    result,             \* what that call produced
    environ,            \* os.environ's MENTORPIECE_API_KEY
    API_KEY,            \* app.API_KEY, read from the environment at import
    pc,                 \* where the request's handler stands
    method,             \* request.method, "none" before the request
    form,               \* request.form
    original_text,      \* index_post's locals
    target_language,
    translated_text,
    quality_verdict,
    calls,              \* the calls of call_llm and their returns, in order
    posts,              \* the requests sent with requests.post, in order
    outcomes,           \* how each requests.post ended, in order
    response,           \* what the handler answered
    threads,            \* per thread: the scorer call it is in, and its locals
    tables,             \* per call frame: rouge_l_f1's local dp
    overlap             \* the threads whose current call ran beside another's step

metricVars == <<reference, hypothesis, SKLEARN_AVAILABLE, fn, result>>

requestVars ==
    <<pc, method, form, original_text, target_language, translated_text, quality_verdict,
      calls, posts, outcomes, response>>

appVars == <<environ, API_KEY, requestVars>>

threadVars == <<threads, tables, overlap>>

vars == <<metricVars, appVars, threadVars>>

\* no scorer has run yet
MetricsFresh ==
    /\ fn = "none"
    /\ result = [kind |-> "none"]

\* no request has arrived yet
RequestFresh ==
    /\ pc = "idle"
    /\ method = "none"
    /\ form = <<>>
    /\ original_text = <<>>
    /\ target_language = <<>>
    /\ translated_text = PyNone
    /\ quality_verdict = PyNone
    /\ calls = <<>>
    /\ posts = <<>>
    /\ outcomes = <<>>
    /\ response = [status |-> 0]

\* the threads that call the scorers
Threads == {"t1", "t2"}

\* the strings the threads pass: two tokens each; the first two hold no
\* token of two or more characters
ThreadInputs == {<<"a", " ", "b">>, <<"b", " ", "a">>, <<"a", "b", " ", "a">>}

Scorers == {"simple_bleu", "rouge_l_f1", "semantic_similarity"}

\* a thread outside any call
IdleThread ==
    [pc |-> "idle", fn |-> "none", ref |-> <<>>, hyp |-> <<>>, i |-> 0,
     result |-> [kind |-> "none"]]

\* no thread has called a scorer yet
ThreadsFresh ==
    /\ threads = [t \in Threads |-> IdleThread]
    /\ tables = [t \in Threads |-> <<>>]
    /\ overlap = {}

\* after import of test_metrics.py: the flag is whatever the import of
\* scikit-learn gave
Init ==
    /\ reference \in Inputs
    /\ hypothesis \in Inputs
    /\ SKLEARN_AVAILABLE \in BOOLEAN
    /\ MetricsFresh
    /\ environ = PyNone
    /\ API_KEY = PyNone
    /\ RequestFresh
    /\ ThreadsFresh

Call_simple_bleu ==
    /\ fn' = "simple_bleu"
    /\ result' = simple_bleu(reference, hypothesis)
    /\ UNCHANGED <<reference, hypothesis, SKLEARN_AVAILABLE, appVars, threadVars>>

Call_rouge_l_f1 ==
    /\ fn' = "rouge_l_f1"
    /\ result' = rouge_l_f1(reference, hypothesis)
    /\ UNCHANGED <<reference, hypothesis, SKLEARN_AVAILABLE, appVars, threadVars>>

Call_semantic_similarity ==
    /\ fn' = "semantic_similarity"
    /\ result' = semantic_similarity(SKLEARN_AVAILABLE, reference, hypothesis)
    /\ UNCHANGED <<reference, hypothesis, SKLEARN_AVAILABLE, appVars, threadVars>>

\* test_semantic_similarity_with_sklearn_or_jaccard up to its assertions,
\* run by pytest on its own: the two scores it computes from its own
\* sentences; an exception of the first call ends the test before the second
Run_test_semantic_similarity ==
    /\ fn = "none"
    /\ fn' = "test_semantic_similarity"
    /\ result' =
          LET sim == semantic_similarity(SKLEARN_AVAILABLE, CatRef, CatSimilar)
              diff == semantic_similarity(SKLEARN_AVAILABLE, CatRef, CatDifferent)
          IN  IF sim.kind = "raise" THEN sim
              ELSE IF diff.kind = "raise" THEN diff
              ELSE [kind |-> "return", sim_score |-> sim, diff_score |-> diff]
    /\ UNCHANGED <<reference, hypothesis, SKLEARN_AVAILABLE, appVars, threadVars>>

Next ==
    \/ Call_simple_bleu
    \/ Call_rouge_l_f1
    \/ Call_semantic_similarity
    \/ Run_test_semantic_similarity

Spec == Init /\ [][Next]_vars

(***************************************************************************)
(* The scorers called from several threads.  A call's tokens, counters and *)
(* table are locals of its frame; the only module-level name a scorer      *)
(* reads is SKLEARN_AVAILABLE.  simple_bleu and semantic_similarity touch  *)
(* nothing but their locals and run as one step; rouge_l_f1 fills its      *)
(* table one row per step, so other threads' steps fall between the rows.  *)
(***************************************************************************)
InitThreads ==
    /\ reference = <<>>
    /\ hypothesis = <<>>
    /\ SKLEARN_AVAILABLE \in BOOLEAN
    /\ MetricsFresh
    /\ environ = PyNone
    /\ API_KEY = PyNone
    /\ RequestFresh
    /\ ThreadsFresh

\* a plausible slip: the table is a module-level list all calls share
FrameOf_Shared(t) == "t1"

\* dp = [[0] * (m + 1) ...] binds a local: each call has its own table
FrameOf(t) == t

\* the threads inside a call
Running == {u \in Threads : threads[u].pc \in {"called", "loop"}}

\* a step of thread t falls inside the calls of the other running threads
Overlapped(t, keeps) ==
    (IF keeps THEN overlap ELSE overlap \ {t}) \cup (Running \ {t})

\* thread t calls scorer f on (r, h)
Invoke(t, f, r, h) ==
    /\ threads[t].pc \in {"idle", "returned"}
    /\ threads' = [threads EXCEPT ![t] =
                      [pc |-> "called", fn |-> f, ref |-> r, hyp |-> h, i |-> 0,
                       result |-> [kind |-> "none"]]]
    /\ overlap' = Overlapped(t, FALSE)
    /\ UNCHANGED <<metricVars, appVars, tables>>

Thread_simple_bleu(t) ==
    /\ threads[t].pc = "called"
    /\ threads[t].fn = "simple_bleu"
    /\ threads' = [threads EXCEPT ![t].pc = "returned",
                                  ![t].result = simple_bleu(threads[t].ref, threads[t].hyp)]
    /\ overlap' = Overlapped(t, TRUE)
    /\ UNCHANGED <<metricVars, appVars, tables>>

Thread_semantic_similarity(t) ==
    /\ threads[t].pc = "called"
    /\ threads[t].fn = "semantic_similarity"
    /\ threads' = [threads EXCEPT ![t].pc = "returned",
                                  ![t].result = semantic_similarity(SKLEARN_AVAILABLE,
                                                    threads[t].ref, threads[t].hyp)]
    /\ overlap' = Overlapped(t, TRUE)
    /\ UNCHANGED <<metricVars, appVars, tables>>

\* rouge_l_f1 up to the loops: lines 42-47
Thread_rouge_alloc(t) ==
    /\ threads[t].pc = "called"
    /\ threads[t].fn = "rouge_l_f1"
    /\ LET n == Len(Split(threads[t].ref))
           m == Len(Split(threads[t].hyp))
       IN  /\ tables' = [tables EXCEPT ![FrameOf(t)] = ZeroTable(n, m)]
           /\ threads' = [threads EXCEPT ![t].pc = "loop", ![t].i = n - 1]
    /\ overlap' = Overlapped(t, TRUE)
    /\ UNCHANGED <<metricVars, appVars>>

\* one pass of the outer loop: lines 48-53
Thread_rouge_row(t) ==
    /\ threads[t].pc = "loop"
    /\ threads[t].i >= 0
    /\ LET a == Split(threads[t].ref)
           b == Split(threads[t].hyp)
           i == threads[t].i
           table == tables[FrameOf(t)]
       IN  tables' = [tables EXCEPT ![FrameOf(t)] =
                     [table EXCEPT ![i] = FillRow(table[i], table[i + 1], a[i + 1], b,
                                                  Len(b) - 1)]]
    /\ threads' = [threads EXCEPT ![t].i = threads[t].i - 1]
    /\ overlap' = Overlapped(t, TRUE)
    /\ UNCHANGED <<metricVars, appVars>>

\* after the loops: lines 54-62; the frame and its table end with the return
Thread_rouge_return(t) ==
    /\ threads[t].pc = "loop"
    /\ threads[t].i < 0
    /\ threads' = [threads EXCEPT
                      ![t].pc = "returned",
                      ![t].i = 0,
                      ![t].result = Return(F1OfLcs(tables[FrameOf(t)][0][0],
                                                   Len(Split(threads[t].ref)),
                                                   Len(Split(threads[t].hyp))))]
    /\ tables' = [tables EXCEPT ![FrameOf(t)] = <<>>]
    /\ overlap' = Overlapped(t, TRUE)
    /\ UNCHANGED <<metricVars, appVars>>

NextThreads ==
    \E t \in Threads :
        \/ \E f \in Scorers, r \in ThreadInputs, h \in ThreadInputs : Invoke(t, f, r, h)
        \/ Thread_simple_bleu(t)
        \/ Thread_semantic_similarity(t)
        \/ Thread_rouge_alloc(t)
        \/ Thread_rouge_row(t)
        \/ Thread_rouge_return(t)

SpecThreads == InitThreads /\ [][NextThreads]_vars

(***************************************************************************)
(* The application's steps.  A handler runs without interruption up to a   *)
(* requests.post, where it waits for the remote API.                       *)
(***************************************************************************)
\* after import of app.py: load_dotenv() has filled the environment and
\* API_KEY holds what os.getenv found there
InitApp ==
    /\ reference = <<>>
    /\ hypothesis = <<>>
    /\ SKLEARN_AVAILABLE = FALSE
    /\ MetricsFresh
    /\ environ \in KeyValues
    /\ API_KEY = environ
    /\ RequestFresh
    /\ ThreadsFresh

CallEvent(model_name, messages) ==
    [ev |-> "call", model_name |-> model_name, messages |-> messages]

ReturnEvent(model_name, value) ==
    [ev |-> "return", model_name |-> model_name, value |-> value]

\* the fixture mock_api_key: monkeypatch.setenv on the running process
mock_api_key ==
    /\ pc = "idle"
    /\ environ # PyStr("test-key-12345")
    /\ environ' = PyStr("test-key-12345")
    /\ UNCHANGED <<metricVars, threadVars, API_KEY, requestVars>>

\* GET /
index_get ==
    /\ pc = "idle"
    /\ pc' = "done"
    /\ method' = "GET"
    /\ response' = RenderTemplate(PyNone, PyNone, PyNone)
    /\ UNCHANGED <<metricVars, threadVars, environ, API_KEY, form, original_text, target_language,
                   translated_text, quality_verdict, calls, posts, outcomes>>

\* POST / with no text: lines 186-197
index_post_empty(f) ==
    /\ pc = "idle"
    /\ Strip(FormGet(f, "original_text", <<>>)) = <<>>
    /\ method' = "POST"
    /\ form' = f
    /\ original_text' = <<>>
    /\ target_language' = Strip(FormGet(f, "target_language", English))
    /\ response' = RenderTemplate(<<>>, ERR_EMPTY_TEXT, PyNone)
    /\ pc' = "done"
    /\ UNCHANGED <<metricVars, threadVars, environ, API_KEY, translated_text, quality_verdict,
                   calls, posts, outcomes>>

\* POST / with a text and no key loaded: both calls of call_llm return at
\* their key check, and the page is rendered: lines 186-263 and 60-63
index_post_without_key(f) ==
    LET text == Strip(FormGet(f, "original_text", <<>>))
        language == Strip(FormGet(f, "target_language", English))
        prompt1 == TranslationPrompt(text, language)
        prompt2 == QualityPrompt(text, language, ERR_NO_KEY)
    IN  /\ pc = "idle"
        /\ text # <<>>
        /\ ~KeyLoaded(API_KEY)
        /\ method' = "POST"
        /\ form' = f
        /\ original_text' = text
        /\ target_language' = language
        /\ translated_text' = ERR_NO_KEY
        /\ quality_verdict' = ERR_NO_KEY
        /\ calls' = <<CallEvent(ModelOfCall(1), prompt1), ReturnEvent(ModelOfCall(1), ERR_NO_KEY),
                      CallEvent(ModelOfCall(2), prompt2), ReturnEvent(ModelOfCall(2), ERR_NO_KEY)>>
        /\ response' = RenderTemplate(text, ERR_NO_KEY, ERR_NO_KEY)
        /\ pc' = "done"
        /\ UNCHANGED <<metricVars, threadVars, environ, API_KEY, posts, outcomes>>

\* POST / with a text and a key: up to the requests.post of the first call
index_post_translate(f) ==
    LET text == Strip(FormGet(f, "original_text", <<>>))
        language == Strip(FormGet(f, "target_language", English))
        prompt1 == TranslationPrompt(text, language)
    IN  /\ pc = "idle"
        /\ text # <<>>
        /\ KeyLoaded(API_KEY)
        /\ method' = "POST"
        /\ form' = f
        /\ original_text' = text
        /\ target_language' = language
        /\ calls' = <<CallEvent(ModelOfCall(1), prompt1)>>
        /\ posts' = <<PostRequest(API_KEY, ModelOfCall(1), prompt1)>>
        /\ pc' = "post1"
        /\ UNCHANGED <<metricVars, threadVars, environ, API_KEY, translated_text, quality_verdict,
                       outcomes, response>>

\* the first requests.post ends: call_llm returns the translation, and the
\* handler goes on to the requests.post of the second call: lines 213-247
index_post_judge(o, json_is_request_exc) ==
    LET translation == AfterPost(o, json_is_request_exc)
        prompt2 == QualityPrompt(original_text, target_language, translation)
    IN  /\ pc = "post1"
        /\ translated_text' = translation
        /\ calls' = calls \o <<ReturnEvent(ModelOfCall(1), translation),
                               CallEvent(ModelOfCall(2), prompt2)>>
        /\ posts' = Append(posts, PostRequest(API_KEY, ModelOfCall(2), prompt2))
        /\ outcomes' = Append(outcomes, o)
        /\ pc' = "post2"
        /\ UNCHANGED <<metricVars, threadVars, environ, API_KEY, method, form, original_text,
                       target_language, quality_verdict, response>>

\* the second requests.post ends: call_llm returns the verdict and the page
\* is rendered: lines 244-263
index_post_render(o, json_is_request_exc) ==
    LET verdict == AfterPost(o, json_is_request_exc)
    IN  /\ pc = "post2"
        /\ quality_verdict' = verdict
        /\ calls' = Append(calls, ReturnEvent(ModelOfCall(2), verdict))
        /\ outcomes' = Append(outcomes, o)
        /\ response' = RenderTemplate(original_text, translated_text, verdict)
        /\ pc' = "done"
        /\ UNCHANGED <<metricVars, threadVars, environ, API_KEY, method, form, original_text,
                       target_language, translated_text, posts>>

NextApp ==
    \/ mock_api_key
    \/ index_get
    \/ \E f \in Forms : index_post_empty(f)
    \/ \E f \in Forms : index_post_without_key(f)
    \/ \E f \in Forms : index_post_translate(f)
    \/ \E o \in HttpOutcomes, b \in BOOLEAN : index_post_judge(o, b)
    \/ \E o \in HttpOutcomes, b \in BOOLEAN : index_post_render(o, b)

SpecApp == InitApp /\ [][NextApp]_vars

(***************************************************************************)
(* Properties of the metrics, checked under Spec.                          *)
(***************************************************************************)
\* the token sequences of the state's inputs
RefWords == Split(reference)
HypWords == Split(hypothesis)

\* the lowercased token sets, lowercasing token by token
TokenSet(s) == {Lower(t) : t \in ToSet(Split(s))}

\* unigram precision without penalty: the share of hypothesis positions whose
\* lowercased token occurs somewhere in the lowercased reference
UnigramPrecision ==
    LET rt == [i \in 1..Len(RefWords) |-> Lower(RefWords[i])]
        ht == [i \in 1..Len(HypWords) |-> Lower(HypWords[i])]
    IN  FloatOf(Rat(Cardinality({i \in 1..Len(ht) : \E j \in 1..Len(rt) : rt[j] = ht[i]}),
                    Len(ht)))

\* the subsequence of a at the positions I
RECURSIVE Pick(_, _, _)
Pick(a, I, i) ==
    IF i > Len(a) THEN <<>>
    ELSE IF i \in I THEN <<a[i]>> \o Pick(a, I, i + 1)
    ELSE Pick(a, I, i + 1)

RECURSIVE IsSubseq(_, _)
IsSubseq(s, t) ==
    IF s = <<>> THEN TRUE
    ELSE IF t = <<>> THEN FALSE
    ELSE IF Head(s) = Head(t) THEN IsSubseq(Tail(s), Tail(t))
    ELSE IsSubseq(s, Tail(t))

\* the length of a longest common subsequence, by enumeration
LcsRef(a, b) ==
    LET lens == {Len(Pick(a, I, 1)) : I \in {J \in SUBSET (1..Len(a)) : IsSubseq(Pick(a, J, 1), b)}}
    IN  CHOOSE x \in lens : \A y \in lens : y <= x

\* C1 as stated: for every non-empty string t, simple_bleu(t, t) and
\* rouge_l_f1(t, t) return exactly 1.0
C1_IdentityNonEmptyString ==
    (fn \in {"simple_bleu", "rouge_l_f1"} /\ reference = hypothesis /\ reference # <<>>)
        => result = Return(Float1)

\* C1 amended: for every string t holding at least one token, simple_bleu(t, t)
\* and rouge_l_f1(t, t) return exactly 1.0
C1_IdentityWithTokens ==
    (fn \in {"simple_bleu", "rouge_l_f1"} /\ reference = hypothesis /\ RefWords # <<>>)
        => result = Return(Float1)

C1_Witness ==
    /\ fn = "simple_bleu"
    /\ reference = hypothesis
    /\ Len(RefWords) >= 2
    /\ RefWords[1] = RefWords[2]
    /\ result = Return(Float1)

\* C2: simple_bleu and rouge_l_f1 return a value in [0, 1] for every pair;
\* matches never exceed the hypothesis token count, the brevity penalty never
\* exceeds 1, the LCS length never exceeds either token count
C2_Boundedness ==
    /\ fn \in {"simple_bleu", "rouge_l_f1"} =>
          /\ result.kind = "return"
          /\ FloatLe(Float0, result.value)
          /\ FloatLe(result.value, Float1)
    /\ LET rt == Split(Lower(reference))
           ht == Split(Lower(hypothesis))
       IN  /\ Matches(rt, ht) <= Len(ht)
           /\ Len(ht) >= 1 => FloatLe(BrevityPenalty(Len(rt), Len(ht)), Float1)
    /\ LET lcs == LcsTable(RefWords, HypWords)[0][0]
       IN  lcs <= Len(RefWords) /\ lcs <= Len(HypWords)

C2_Witness ==
    /\ fn = "simple_bleu"
    /\ result.kind = "return"
    /\ FloatLt(Float0, result.value)
    /\ FloatLt(result.value, Float1)
    /\ Len(HypWords) < Len(RefWords)

\* C3 as stated: semantic_similarity returns a number for every pair of strings
\* and both values of the availability flag
C3_NeverRaises ==
    fn = "semantic_similarity" => result.kind = "return"

\* C4: simple_bleu returns 0.0 without raising whenever the hypothesis has no
\* tokens (empty or whitespace-only), for any reference
C4_EmptyHypothesisGuard ==
    (fn = "simple_bleu" /\ \A i \in 1..Len(hypothesis) : hypothesis[i] \in Whitespace)
        => result = Return(Float0)

C4_Witness ==
    /\ fn = "simple_bleu"
    /\ Len(hypothesis) >= 2
    /\ \A i \in 1..Len(hypothesis) : hypothesis[i] \in Whitespace
    /\ RefWords # <<>>
    /\ result = Return(Float0)

\* the Jaccard reference operator on two sets
JaccardRef(A, B) ==
    CASE A = {} /\ B = {} -> Float1
      [] (A = {}) # (B = {}) -> Float0
      [] OTHER -> FloatOf(Rat(Cardinality(A \cap B), Cardinality(A \cup B)))

\* C5: without the vector capability semantic_similarity equals the Jaccard
\* reference operator on the lowercased whitespace-token sets: 1.0 when both
\* are empty, 0.0 when exactly one is, |A n B| / |A u B| otherwise
C5_FallbackIsJaccard ==
    (fn = "semantic_similarity" /\ ~SKLEARN_AVAILABLE)
        => result = Return(JaccardRef(TokenSet(reference), TokenSet(hypothesis)))

C5_Witness ==
    /\ fn = "semantic_similarity"
    /\ ~SKLEARN_AVAILABLE
    /\ reference # Lower(reference)
    /\ TokenSet(reference) # {}
    /\ TokenSet(hypothesis) # {}
    /\ result.kind = "return"
    /\ FloatLt(Float0, result.value)
    /\ FloatLt(result.value, Float1)

\* hyp's tokens are a non-empty proper prefix of ref's tokens
IsProperPrefix(b, a) ==
    /\ b # <<>>
    /\ Len(b) < Len(a)
    /\ SubSeq(a, 1, Len(b)) = b

\* C6: when the LCS length L is positive rouge_l_f1 returns the harmonic mean
\* of L/m and L/n, that is 2L/(n+m); for a hypothesis that is a non-empty
\* proper prefix of the reference's tokens the result lies strictly between 0
\* and 1, and exceeds 0.3 for the 5-of-9-token prefix of the unit test
C6_RougeHarmonicMean ==
    fn = "rouge_l_f1" =>
        LET n == Len(RefWords)
            m == Len(HypWords)
            L == LcsRef(RefWords, HypWords)
        IN  /\ result.kind = "return"
            /\ L > 0 => result.value = FloatOf(Rat(2 * L, n + m))
            /\ IsProperPrefix(HypWords, RefWords) =>
                  /\ FloatLt(Float0, result.value)
                  /\ FloatLt(result.value, Float1)
            /\ (reference = FoxRef /\ hypothesis = FoxPrefix) =>
                  FloatLt(FloatOf(Rat(3, 10)), result.value)

C6_Witness ==
    /\ fn = "rouge_l_f1"
    /\ reference = FoxRef
    /\ hypothesis = FoxPrefix
    /\ IsProperPrefix(HypWords, RefWords)
    /\ result = Return(FloatOf(Rat(5, 7)))

\* C7 as stated: whenever 1 <= hyp_len < ref_len, simple_bleu's result is
\* strictly less than the unpenalized unigram precision
C7_StrictlyBelowPrecision ==
    (fn = "simple_bleu" /\ 1 <= Len(HypWords) /\ Len(HypWords) < Len(RefWords))
        => /\ result.kind = "return"
           /\ FloatLt(result.value, UnigramPrecision)

\* C7 amended: the result is the precision times the penalty, the penalty
\* being 1.0 when hyp_len >= ref_len (also for ref_len = 0) and
\* exp(1 - ref_len/hyp_len) otherwise; whenever 1 <= hyp_len < ref_len the
\* result is strictly less than the unpenalized precision if some hypothesis
\* token occurs in the reference, and equals it (both 0.0) if none does
C7_BrevityPenalty ==
    (fn = "simple_bleu" /\ 1 <= Len(HypWords)) =>
        LET r == Len(RefWords)
            h == Len(HypWords)
            penalty == IF h >= r THEN Float1 ELSE FloatExp(Rat(h - r, h))
        IN  /\ result = Return(FloatMul(UnigramPrecision, penalty))
            /\ h < r =>
                  IF FloatLt(Float0, UnigramPrecision)
                  THEN FloatLt(result.value, UnigramPrecision)
                  ELSE result.value = Float0 /\ UnigramPrecision = Float0

C7_Witness ==
    /\ fn = "simple_bleu"
    /\ reference = ShortRef
    /\ hypothesis = ShortHyp
    /\ UnigramPrecision = Float1
    /\ result = Return(FloatExp(Rat(-1, 1)))

\* C8: under the Jaccard fallback the similarity of "The cat sat on the mat"
\* to "A cat was sitting on the mat" is at least 0.4 and strictly greater than
\* its similarity to "An airplane flew across the sky", which is below 0.3
C8_MonotonicDiscrimination ==
    (fn = "test_semantic_similarity" /\ ~SKLEARN_AVAILABLE) =>
        /\ result.kind = "return"
        /\ result.sim_score.kind = "return"
        /\ result.diff_score.kind = "return"
        /\ FloatLt(result.diff_score.value, result.sim_score.value)
        /\ FloatLe(FloatOf(Rat(4, 10)), result.sim_score.value)
        /\ FloatLt(result.diff_score.value, FloatOf(Rat(3, 10)))

C8_Witness ==
    /\ fn = "test_semantic_similarity"
    /\ ~SKLEARN_AVAILABLE
    /\ result.kind = "return"
    /\ result.sim_score = Return(FloatOf(Rat(1, 2)))
    /\ result.diff_score = Return(FloatOf(Rat(1, 10)))

\* the tokens of the state's inputs, each lowercased
RefLower == [i \in 1..Len(RefWords) |-> Lower(RefWords[i])]
HypLower == [i \in 1..Len(HypWords) |-> Lower(HypWords[i])]

\* how often token t occurs in tokens
Occurrences(tokens, t) == Cardinality({i \in 1..Len(tokens) : tokens[i] = t})

\* C14: simple_bleu counts every hypothesis token occurrence whose token
\* occurs at least once in the reference, without clipping to the reference
\* frequency; a hypothesis of at least as many tokens as the reference, all of
\* them reference tokens, scores exactly 1.0, and a hypothesis sharing no
\* token with the reference scores exactly 0.0
C14_UnclippedPrecision ==
    fn = "simple_bleu" =>
        LET r == Len(RefLower)
            h == Len(HypLower)
            counted == {i \in 1..h : Occurrences(RefLower, HypLower[i]) >= 1}
        IN  /\ h >= 1 =>
                  result = Return(FloatMul(FloatOf(Rat(Cardinality(counted), h)),
                                           IF h < r THEN FloatExp(Rat(h - r, h)) ELSE Float1))
            /\ (h >= 1 /\ h >= r /\ counted = 1..h) => result = Return(Float1)
            /\ ToSet(HypLower) \cap ToSet(RefLower) = {} => result = Return(Float0)

\* a hypothesis token repeated beyond its reference frequency is fully counted
C14_Witness ==
    /\ fn = "simple_bleu"
    /\ Len(HypWords) >= Len(RefWords)
    /\ \E i \in 1..Len(HypLower) :
          /\ Occurrences(RefLower, HypLower[i]) >= 1
          /\ Occurrences(HypLower, HypLower[i]) > Occurrences(RefLower, HypLower[i])
    /\ \E t \in ToSet(RefLower) : t \notin ToSet(HypLower)
    /\ result = Return(Float1)

\* the inputs that are s up to the case of its letters
CaseVariants(s) ==
    {x \in Inputs : Len(x) = Len(s) /\ \A i \in 1..Len(s) : LowerChar(x[i]) = LowerChar(s[i])}

\* the two inputs have the same tokens up to case, and every token differs
\* from its counterpart in the case of some letter
DifferOnlyInCase ==
    /\ Len(RefWords) >= 1
    /\ Len(RefWords) = Len(HypWords)
    /\ \A i \in 1..Len(RefWords) :
          /\ RefLower[i] = HypLower[i]
          /\ RefWords[i] # HypWords[i]

\* C15 as stated: two inputs differing only in case in every token give
\* simple_bleu = 1.0 but rouge_l_f1 = 0.0
C15_CaseOnlyRougeZero ==
    DifferOnlyInCase =>
        /\ fn = "simple_bleu" => result = Return(Float1)
        /\ fn = "rouge_l_f1" => result = Return(Float0)

\* C15 amended: simple_bleu and the Jaccard fallback give the same result for
\* all case variants of the two inputs; rouge_l_f1 compares tokens as written:
\* two inputs differing only in case in every token give simple_bleu = 1.0 and
\* a rouge_l_f1 below 1.0, which is 0.0 when no token of one input occurs as
\* written in the other
C15_CaseAsymmetry ==
    /\ fn = "simple_bleu" =>
          \A r \in CaseVariants(reference), h \in CaseVariants(hypothesis) :
              simple_bleu(r, h) = result
    /\ (fn = "semantic_similarity" /\ ~SKLEARN_AVAILABLE) =>
          \A r \in CaseVariants(reference), h \in CaseVariants(hypothesis) :
              semantic_similarity(FALSE, r, h) = result
    /\ DifferOnlyInCase =>
          /\ fn = "simple_bleu" => result = Return(Float1)
          /\ fn = "rouge_l_f1" =>
                /\ result.kind = "return"
                /\ FloatLt(result.value, Float1)
                /\ ToSet(RefWords) \cap ToSet(HypWords) = {} => result = Return(Float0)

C15_Witness ==
    /\ fn = "rouge_l_f1"
    /\ DifferOnlyInCase
    /\ Len(RefWords[1]) >= 2
    /\ simple_bleu(reference, hypothesis) = Return(Float1)
    /\ result = Return(Float0)

\* s[i:] for a token list, i counted from 0
Suffix(seq, i) == SubSeq(seq, i + 1, Len(seq))

\* C13: the table rouge_l_f1 fills holds in dp[i][j] the length of a longest
\* common subsequence of a[i:] and b[j:], so dp[0][0] is that of the two token
\* sequences, row n and column m keep their initial 0, and the score of a
\* call is computed from that length
C13_DPIsLcs ==
    LET n == Len(RefWords)
        m == Len(HypWords)
        dp == LcsTable(RefWords, HypWords)
    IN  fn = "rouge_l_f1" =>
            /\ dp[0][0] = LcsRef(RefWords, HypWords)
            /\ \A j \in 0..m : dp[n][j] = 0
            /\ \A i \in 0..n : dp[i][m] = 0
            /\ \A i \in 0..n, j \in 0..m :
                  dp[i][j] = LcsRef(Suffix(RefWords, i), Suffix(HypWords, j))
            /\ result = Return(F1OfLcs(LcsRef(RefWords, HypWords), n, m))

C13_Witness ==
    /\ fn = "rouge_l_f1"
    /\ LcsRef(RefWords, HypWords) >= 2
    /\ LcsRef(RefWords, HypWords) < Len(RefWords)
    /\ LcsRef(RefWords, HypWords) < Len(HypWords)
    /\ RefWords[1] # HypWords[1]
    /\ LcsTable(RefWords, HypWords)[0][0] = LcsRef(RefWords, HypWords)

(***************************************************************************)
(* Properties of the scorers called from threads, checked under            *)
(* SpecThreads.                                                            *)
(***************************************************************************)
\* the strategy a result of semantic_similarity came from: the vector branch
\* ends in a cosine or in an exception of the vectorizer, the fallback in a
\* ratio of set sizes
UsedVector(res) == res.kind = "raise" \/ "cosine" \in DOMAIN res
UsedJaccard(res) == res.kind = "return" /\ "value" \in DOMAIN res

\* C16: no step changes the flag set at import, and every call of
\* semantic_similarity, whatever its inputs and whatever earlier calls
\* returned or raised, ends in the strategy the flag selects: the vector
\* branch (its value or its exception) when the flag is set, the fallback
\* when it is not
C16_StaticStrategy ==
    [][/\ SKLEARN_AVAILABLE' = SKLEARN_AVAILABLE
       /\ \A t \in Threads :
             (threads'[t].fn = "semantic_similarity" /\ threads'[t].pc = "returned") =>
                 IF SKLEARN_AVAILABLE
                 THEN /\ UsedVector(threads'[t].result)
                      /\ threads'[t].result = VectorStrategy(threads'[t].ref, threads'[t].hyp)
                 ELSE /\ UsedJaccard(threads'[t].result)
                      /\ threads'[t].result =
                            Return(JaccardFallback(threads'[t].ref, threads'[t].hyp))]_vars

\* one call has raised in the vector branch, another has returned a cosine
C16_Witness ==
    /\ SKLEARN_AVAILABLE
    /\ threads["t1"].fn = "semantic_similarity"
    /\ threads["t1"].pc = "returned"
    /\ threads["t1"].result = Raise("ValueError")
    /\ threads["t2"].fn = "semantic_similarity"
    /\ threads["t2"].pc = "returned"
    /\ threads["t2"].result.kind = "return"
    /\ "cosine" \in DOMAIN threads["t2"].result

\* what scorer f gives on (r, h) when the call runs alone
Alone(f, r, h) ==
    CASE f = "simple_bleu" -> simple_bleu(r, h)
      [] f = "rouge_l_f1" -> rouge_l_f1(r, h)
      [] f = "semantic_similarity" -> semantic_similarity(SKLEARN_AVAILABLE, r, h)

\* C17: in every interleaving of the threads' calls, no step writes the
\* module-level flag, a step of one thread leaves the other threads' calls
\* and tables as they were, and every call returns what the same call gives
\* when run alone, a function of the scorer and its two strings
C17_PureUnderInterleaving ==
    [][/\ SKLEARN_AVAILABLE' = SKLEARN_AVAILABLE
       /\ \A t \in Threads :
             threads'[t].pc = "returned" =>
                 threads'[t].result = Alone(threads'[t].fn, threads'[t].ref, threads'[t].hyp)
       /\ \A t \in Threads :
             threads'[t] # threads[t] =>
                 \A u \in Threads \ {t} :
                     threads'[u] = threads[u] /\ tables'[u] = tables[u]]_vars

\* a rouge_l_f1 call that ran beside another thread's steps has returned,
\* while the other thread is between two rows of its own table
C17_Witness ==
    /\ threads["t1"].fn = "rouge_l_f1"
    /\ threads["t1"].pc = "returned"
    /\ "t1" \in overlap
    /\ threads["t1"].result = Return(FloatOf(Rat(1, 2)))
    /\ threads["t2"].fn = "rouge_l_f1"
    /\ threads["t2"].pc = "loop"
    /\ threads["t2"].i = 0
    /\ "t2" \in overlap
    /\ threads["t2"].ref # threads["t1"].ref

(***************************************************************************)
(* Properties of the application, checked under SpecApp.                   *)
(***************************************************************************)
\* the request is a POST whose original_text is not empty after stripping
PostWithText ==
    /\ pc # "idle"
    /\ "original_text" \in DOMAIN form
    /\ \E i \in 1..Len(form["original_text"]) : form["original_text"][i] \notin Whitespace

\* the calls and returns of call_llm so far, by event and model
CallTrace == [i \in 1..Len(calls) |-> <<calls[i].ev, calls[i].model_name>>]

\* translation first, judgment second, each call returned before the next
ExpectedTrace ==
    << <<"call", "Qwen/Qwen3-VL-30B-A3B-Instruct">>,
       <<"return", "Qwen/Qwen3-VL-30B-A3B-Instruct">>,
       <<"call", "claude-sonnet-4-5-20250929">>,
       <<"return", "claude-sonnet-4-5-20250929">> >>

\* C9 as stated: whatever the outcome of the HTTP call, call_llm returns a str
C9_CallLlmReturnsStr ==
    \A i \in 1..Len(calls) : calls[i].ev = "return" => calls[i].value.type = "str"

\* C10: a POST with a non-empty stripped text calls call_llm exactly twice,
\* the translation with the Qwen model and then the judgment with the
\* Claude model; the judgment is never called before the translation has
\* returned, and the page (status 200, with the original text and the
\* translation) is rendered only after both have returned
C10_TwoCallsInOrder ==
    PostWithText =>
        /\ Len(calls) >= 1
        /\ Len(calls) <= 4
        /\ CallTrace = SubSeq(ExpectedTrace, 1, Len(calls))
        /\ response.status # 0 => pc = "done"
        /\ pc = "done" =>
              /\ CallTrace = ExpectedTrace
              /\ response.status = 200
              /\ response.original_text = Strip(form["original_text"])
              /\ response.translated_text = calls[2].value
              /\ response.quality_verdict = calls[4].value

C10_Witness ==
    /\ PostWithText
    /\ pc = "done"
    /\ Len(posts) = 2
    /\ CallTrace = ExpectedTrace
    /\ calls[2].value = Returned("str", "response", 0)
    /\ calls[4].value = Returned("str", "response", 0)
    /\ response.translated_text = Returned("str", "response", 0)

\* the request is a POST whose original_text is missing, empty or made of
\* whitespace only
PostWithoutText ==
    /\ method = "POST"
    /\ "original_text" \in DOMAIN form =>
          \A i \in 1..Len(form["original_text"]) : form["original_text"][i] \in Whitespace

\* C11: a POST whose original_text is missing, empty or whitespace-only makes
\* no call of call_llm and sends no request; it is answered at once with
\* status 200, an error message in place of the translation and no verdict
C11_EmptyTextNoCall ==
    PostWithoutText =>
        /\ calls = <<>>
        /\ posts = <<>>
        /\ pc = "done"
        /\ response.status = 200
        /\ response.translated_text = ERR_EMPTY_TEXT
        /\ response.quality_verdict = PyNone

C11_Witness ==
    /\ PostWithoutText
    /\ "original_text" \in DOMAIN form
    /\ Len(form["original_text"]) >= 1
    /\ KeyLoaded(API_KEY)
    /\ calls = <<>>
    /\ response.status = 200
    /\ response.translated_text = ERR_EMPTY_TEXT

\* call k of the request (1 the translation, 2 the judgment) has been invoked,
\* has returned
Invoked(k) == Len(calls) >= 2 * k - 1
HasReturned(k) == Len(calls) >= 2 * k

\* what call k returned
ReturnOf(k) == calls[2 * k].value

\* the API answered request k with status 200 and a JSON object holding a
\* "response" text
AnsweredWithText(k) ==
    /\ Len(outcomes) >= k
    /\ outcomes[k].kind = "response"
    /\ outcomes[k].status = 200
    /\ outcomes[k].body = [shape |-> "with_field", rtype |-> "str"]

\* C12 as stated: when MENTORPIECE_API_KEY is in the environment at the time
\* call_llm is invoked, the call issues exactly one POST to API_ENDPOINT with
\* an Authorization header starting with "Bearer ", and returns the
\* "response" text when the API answers status 200 with it
C12_KeyInEnvironAtCall ==
    \A k \in {1, 2} :
        (Truthy(environ) /\ Invoked(k)) =>
            /\ Len(posts) >= k
            /\ Len(posts) <= Cardinality({i \in 1..Len(calls) : calls[i].ev = "call"})
            /\ posts[k].url = "https://api.mentorpiece.org/v1/process-ai-request"
            /\ posts[k].headers.Authorization[1] = "Bearer "
            /\ (HasReturned(k) /\ AnsweredWithText(k)) =>
                  ReturnOf(k) = Returned("str", "response", 0)

\* C18 as stated: a response counts as successful only with a status code in
\* 200-299; for every other status code call_llm returns the API-error
\* message holding that code, whatever the body
C18_Only2xxSucceeds ==
    \A k \in {1, 2} :
        (HasReturned(k)
            /\ Len(outcomes) >= k
            /\ outcomes[k].kind = "response"
            /\ outcomes[k].status \notin 200..299)
        => ReturnOf(k) = ERR_API(outcomes[k].status)

\* C19: while no API key is loaded (API_KEY is None or empty) call_llm sends
\* no HTTP request and returns the "API key not loaded" message; every
\* request that is sent carries "Bearer " followed by the loaded, non-empty
\* key
C19_NoRequestWithoutKey ==
    /\ ~Truthy(API_KEY) =>
          /\ posts = <<>>
          /\ outcomes = <<>>
          /\ \A k \in {1, 2} : HasReturned(k) => ReturnOf(k) = ERR_NO_KEY
    /\ \A i \in 1..Len(posts) :
          /\ API_KEY.type = "str"
          /\ API_KEY.s # ""
          /\ posts[i].headers.Authorization = <<"Bearer ", API_KEY.s>>

\* the key is empty at import, the fixture has set the environment since
C19_Witness ==
    /\ API_KEY = PyStr("")
    /\ Truthy(environ)
    /\ HasReturned(2)
    /\ ReturnOf(1) = ERR_NO_KEY
    /\ ReturnOf(2) = ERR_NO_KEY
    /\ posts = <<>>

\* the error messages call_llm returns in place of an answer
ErrorMessages ==
    {ERR_NO_KEY, ERR_TIMEOUT, ERR_CONNECTION, ERR_REQUEST, ERR_JSON, ERR_UNEXPECTED,
     ERR_NO_FIELD}
    \cup {ERR_API(code) : code \in StatusCodes}

\* C20: when the translation call has returned an error message, the
\* judgment call is made all the same, with the Claude model and a prompt
\* that embeds the error message as the translation (sent to the API when a
\* key is loaded), and the page is rendered with the error message as
\* translated_text and what the judgment call returned as quality_verdict
C20_JudgeAfterFailedTranslation ==
    (HasReturned(1) /\ ReturnOf(1) \in ErrorMessages) =>
        /\ Invoked(2)
        /\ calls[3] = CallEvent("claude-sonnet-4-5-20250929",
                                 [task |-> "judge", original_text |-> original_text,
                                  target_language |-> target_language,
                                  translation |-> ReturnOf(1)])
        /\ Truthy(API_KEY) =>
              /\ Len(posts) = 2
              /\ posts[2].json.prompt.translation = ReturnOf(1)
        /\ pc = "done" =>
              /\ HasReturned(2)
              /\ response.status = 200
              /\ response.translated_text = ReturnOf(1)
              /\ response.quality_verdict = ReturnOf(2)

\* the translation timed out, the judgment of the error message succeeded
C20_Witness ==
    /\ pc = "done"
    /\ Len(posts) = 2
    /\ ReturnOf(1) = ERR_TIMEOUT
    /\ posts[2].json.prompt.translation = ERR_TIMEOUT
    /\ ReturnOf(2) = Returned("str", "response", 0)
    /\ response.translated_text = ERR_TIMEOUT
    /\ response.quality_verdict = Returned("str", "response", 0)

====
